---- MODULE Spec2Model ----
(***************************************************************************)
(* Model of toga.validators (src/src/core/toga/validators.py): the         *)
(* BooleanValidator and CountValidator classes, the construction           *)
(* functions, combine() and the three regular expressions.                 *)
(*                                                                         *)
(* A Python str is a sequence of one-character strings.  Python None, an   *)
(* int-or-None and a str-or-None are records with a `none` flag, so that   *)
(* `x != 0` and `x is not None` keep their Python meaning.  The outcome of *)
(* a call is a record: it returned None, it returned a str (with the       *)
(* attribute the str was read from), or it raised.                         *)
(***************************************************************************)
EXTENDS Integers, Sequences, FiniteSets, TLC

\* ---- bounds -------------------------------------------------------------
MaxLen == 2         \* longest input string
MaxLength == 2      \* largest length argument of min_length / max_length
MaxCount == 2       \* largest expected count
MaxValidators == 2  \* most validators given to combine()
NumThreads == 2     \* concurrent callers

\* ---- strings ------------------------------------------------------------
ascii_uppercase == {"A","B","C","D","E","F","G","H","I","J","K","L","M",
                    "N","O","P","Q","R","S","T","U","V","W","X","Y","Z"}
ascii_lowercase == {"a","b","c","d","e","f","g","h","i","j","k","l","m",
                    "n","o","p","q","r","s","t","u","v","w","x","y","z"}
digits == {"0","1","2","3","4","5","6","7","8","9"}

\* The characters inputs are drawn from: a digit, a lowercase and an
\* uppercase letter, the dot, the minus sign and the newline.
Alphabet == {"1", "a", "A", ".", "-", "\n"}
Inputs == UNION {[1..n -> Alphabet] : n \in 0..MaxLen}

str_isalpha(char) == char \in ascii_uppercase \cup ascii_lowercase
str_isdigit(char) == char \in digits

\* a.startswith(prefix) / a.endswith(suffix) for one str
HasPrefix(a, p) == Len(p) <= Len(a) /\ SubSeq(a, 1, Len(p)) = p
HasSuffix(a, s) == Len(s) <= Len(a) /\ SubSeq(a, Len(a) - Len(s) + 1, Len(a)) = s

\* a.count(sub): non-overlapping occurrences, scanning from the left
RECURSIVE count_from(_, _, _)
count_from(a, sub, p) ==
    IF p + Len(sub) - 1 > Len(a) THEN 0
    ELSE IF SubSeq(a, p, p + Len(sub) - 1) = sub
         THEN 1 + count_from(a, sub, p + Len(sub))
         ELSE count_from(a, sub, p + 1)
str_count(a, sub) == IF sub = <<>> THEN Len(a) + 1 ELSE count_from(a, sub, 1)

RECURSIVE SumSeq(_)
SumSeq(q) == IF q = <<>> THEN 0 ELSE Head(q) + SumSeq(Tail(q))

\* ---- Python values ------------------------------------------------------
PyNone == [none |-> TRUE, n |-> 0]
PyInt(k) == [none |-> FALSE, n |-> k]

\* the substrings argument: one str, a list of str, or a tuple of str
SubStr(s) == [t |-> "str", s |-> s, l |-> <<>>]
SubList(l) == [t |-> "list", s |-> <<>>, l |-> l]
SubTuple(l) == [t |-> "tuple", s |-> <<>>, l |-> l]
NoSubs == [t |-> "none", s |-> <<>>, l |-> <<>>]

\* an error message: the format string and what is formatted into it
NoMsg == [none |-> TRUE, fmt |-> "", n |-> PyNone, subs |-> NoSubs]
Msg(fmt, n, subs) == [none |-> FALSE, fmt |-> fmt, n |-> n, subs |-> subs]
CustomMsg == Msg("custom", PyNone, NoSubs)

\* outcome of a call
ReturnNone == [t |-> "None", msg |-> NoMsg, attr |-> "", exc |-> ""]
ReturnStr(m, attr) == [t |-> "str", msg |-> m, attr |-> attr, exc |-> ""]
Raise(exc) == [t |-> "raise", msg |-> NoMsg, attr |-> "", exc |-> exc]

\* ---- regular expressions ------------------------------------------------
\* A compiled pattern is a tree; re.error is the tree of a pattern that does
\* not compile.
ReSet(S) == [op |-> "set", chars |-> S, kids |-> <<>>]
ReAny == [op |-> "any", chars |-> {}, kids |-> <<>>]
ReBol == [op |-> "bol", chars |-> {}, kids |-> <<>>]
ReEol == [op |-> "eol", chars |-> {}, kids |-> <<>>]
ReSeq(k) == [op |-> "seq", chars |-> {}, kids |-> k]
ReAlt(k) == [op |-> "alt", chars |-> {}, kids |-> k]
ReStar(r) == [op |-> "star", chars |-> {}, kids |-> <<r>>]
RePlus(r) == [op |-> "plus", chars |-> {}, kids |-> <<r>>]
ReOpt(r) == [op |-> "opt", chars |-> {}, kids |-> <<r>>]
ReError == [op |-> "error", chars |-> {}, kids |-> <<>>]

ReLetters == ascii_uppercase \cup ascii_lowercase
ReAlnum == ReLetters \cup digits

\* r"^[0-9]+$"
INTEGER_REGEX == ReSeq(<<ReBol, RePlus(ReSet(digits)), ReEol>>)
\* r"^[-]?(\d+|\d*\.\d+|\d+.\d*)$"
NUMBER_REGEX ==
    ReSeq(<<ReBol, ReOpt(ReSet({"-"})),
            ReAlt(<<RePlus(ReSet(digits)),
                    ReSeq(<<ReStar(ReSet(digits)), ReSet({"."}), RePlus(ReSet(digits))>>),
                    ReSeq(<<RePlus(ReSet(digits)), ReAny, ReStar(ReSet(digits))>>)>>),
            ReEol>>)
\* r"^[a-zA-Z][a-zA-Z0-9\.]*[a-zA-Z0-9]@[a-zA-Z][a-zA-Z0-9]*(\.[a-zA-Z0-9]+)+$"
EMAIL_REGEX ==
    ReSeq(<<ReBol, ReSet(ReLetters), ReStar(ReSet(ReAlnum \cup {"."})), ReSet(ReAlnum),
            ReSet({"@"}), ReSet(ReLetters), ReStar(ReSet(ReAlnum)),
            RePlus(ReSeq(<<ReSet({"."}), RePlus(ReSet(ReAlnum))>>)),
            ReEol>>)
\* a pattern that does not compile, e.g. r"("
BAD_REGEX == ReError
\* r"a"
LETTER_A_REGEX == ReSet({"a"})

\* MatchEnds(r, s, p): the positions q such that r matches s[p+1..q]
\* (positions are 0..Len(s), between characters).
RECURSIVE MatchEnds(_, _, _)
RECURSIVE MatchSeq(_, _, _, _)
RECURSIVE MatchStar(_, _, _)
MatchSeq(kids, k, s, P) ==
    IF k > Len(kids) THEN P
    ELSE MatchSeq(kids, k + 1, s, UNION {MatchEnds(kids[k], s, p) : p \in P})
MatchStar(r, s, P) ==
    LET N == P \cup UNION {MatchEnds(r, s, p) : p \in P}
    IN  IF N = P THEN P ELSE MatchStar(r, s, N)
MatchEnds(r, s, p) ==
    CASE r.op = "set" -> IF p < Len(s) /\ s[p + 1] \in r.chars THEN {p + 1} ELSE {}
      [] r.op = "any" -> IF p < Len(s) /\ s[p + 1] # "\n" THEN {p + 1} ELSE {}
      [] r.op = "bol" -> IF p = 0 THEN {p} ELSE {}
      [] r.op = "eol" -> IF \/ p = Len(s)
                            \/ (p = Len(s) - 1 /\ s[Len(s)] = "\n")
                         THEN {p} ELSE {}
      [] r.op = "seq" -> MatchSeq(r.kids, 1, s, {p})
      [] r.op = "alt" -> UNION {MatchEnds(r.kids[k], s, p) : k \in 1..Len(r.kids)}
      [] r.op = "star" -> MatchStar(r.kids[1], s, {p})
      [] r.op = "plus" -> MatchStar(r.kids[1], s, MatchEnds(r.kids[1], s, p))
      [] r.op = "opt" -> {p} \cup MatchEnds(r.kids[1], s, p)

\* bool(re.search(regex_string, a)); the pattern is compiled by the search
re_search(regex_string, a) ==
    IF regex_string.op = "error" THEN "re.error"
    ELSE IF \E p \in 0..Len(a) : MatchEnds(regex_string, a, p) # {}
         THEN "True" ELSE "False"

\* ---- the closures the construction functions capture ---------------------
NoRegex == ReSeq(<<>>)
Lambda(name, length, substrings, regex_string) ==
    [lambda |-> name, length |-> length, substrings |-> substrings,
     regex_string |-> regex_string]

\* the comparison of min_length made strict
min_length_is_valid_Strict(a, length) == IF Len(a) > length THEN "True" ELSE "False"
\* lambda a: len(a) >= length
min_length_is_valid(a, length) == IF Len(a) >= length THEN "True" ELSE "False"
\* lambda a: len(a) <= length
max_length_is_valid(a, length) == IF Len(a) <= length THEN "True" ELSE "False"
\* lambda a: a.startswith(substrings); str.startswith takes a str or a tuple
\* of str and raises TypeError for anything else
startswith_is_valid(a, substrings) ==
    CASE substrings.t = "str" -> IF HasPrefix(a, substrings.s) THEN "True" ELSE "False"
      [] substrings.t = "tuple" ->
            IF \E k \in 1..Len(substrings.l) : HasPrefix(a, substrings.l[k])
            THEN "True" ELSE "False"
      [] OTHER -> "TypeError"
\* lambda a: a.endswith(substrings)
endswith_is_valid(a, substrings) ==
    CASE substrings.t = "str" -> IF HasSuffix(a, substrings.s) THEN "True" ELSE "False"
      [] substrings.t = "tuple" ->
            IF \E k \in 1..Len(substrings.l) : HasSuffix(a, substrings.l[k])
            THEN "True" ELSE "False"
      [] OTHER -> "TypeError"
\* lambda a: bool(re.search(regex_string, a))
match_regex_is_valid(a, regex_string) == re_search(regex_string, a)

is_valid_method(m, a) ==
    CASE m.lambda = "min_length" -> min_length_is_valid(a, m.length)
      [] m.lambda = "max_length" -> max_length_is_valid(a, m.length)
      [] m.lambda = "startswith" -> startswith_is_valid(a, m.substrings)
      [] m.lambda = "endswith" -> endswith_is_valid(a, m.substrings)
      [] m.lambda = "match_regex" -> match_regex_is_valid(a, m.regex_string)

\* lambda a: sum(a.count(substring) for substring in substrings)
contains_count(a, substrings) ==
    SumSeq([k \in 1..Len(substrings.l) |-> str_count(a, substrings.l[k])])
\* lambda a: len([char for char in a if char in ascii_uppercase]) and the like
CountChars(a, S) == Cardinality({k \in 1..Len(a) : a[k] \in S})
contains_uppercase_count(a) == CountChars(a, ascii_uppercase)
contains_lowercase_count(a) == CountChars(a, ascii_lowercase)
contains_digit_count(a) == CountChars(a, digits)
contains_special_count(a) ==
    Cardinality({k \in 1..Len(a) : ~str_isalpha(a[k]) /\ ~str_isdigit(a[k])})

count_method(m, a) ==
    CASE m.lambda = "contains" -> contains_count(a, m.substrings)
      [] m.lambda = "contains_uppercase" -> contains_uppercase_count(a)
      [] m.lambda = "contains_lowercase" -> contains_lowercase_count(a)
      [] m.lambda = "contains_digit" -> contains_digit_count(a)
      [] m.lambda = "contains_special" -> contains_special_count(a)

\* ---- the validator classes ----------------------------------------------
BooleanValidator(is_valid, error_message, allow_empty) ==
    [cls |-> "BooleanValidator", is_valid_method |-> is_valid,
     error_message |-> error_message, allow_empty |-> allow_empty]

CountValidator(counter, count, expected_existence, expected_non_existence, expected_count, allow_empty) ==
    [cls |-> "CountValidator", count_method |-> counter, count |-> count,
     expected_existence |-> expected_existence,
     expected_non_existence |-> expected_non_existence,
     expected_count |-> expected_count, allow_empty |-> allow_empty]

\* the closure combine() returns
combine(validators) == [cls |-> "combined_validator", validators |-> validators]

\* no validator (before construction), and a construction call that raised
NoValidator == [cls |-> "None"]
Raised(exc) == [cls |-> "raise", exc |-> exc]

\* BooleanValidator.__call__ without the empty-input exemption
BooleanValidator_call_NoExempt(self, input_string) ==
    LET r == is_valid_method(self.is_valid_method, input_string)
    IN  IF r \notin {"True", "False"} THEN Raise(r)
        ELSE IF r = "True" THEN ReturnNone
        ELSE ReturnStr(self.error_message, "error_message")

BooleanValidator_call(self, input_string) ==
    IF self.allow_empty /\ input_string = <<>> THEN ReturnNone
    ELSE LET r == is_valid_method(self.is_valid_method, input_string)
         IN  IF r \notin {"True", "False"} THEN Raise(r)
             ELSE IF r = "True" THEN ReturnNone
             ELSE ReturnStr(self.error_message, "error_message")

\* CountValidator.__call__ testing the exact count before existence
CountValidator_call_CountFirst(self, input_string) ==
    IF self.allow_empty /\ input_string = <<>> THEN ReturnNone
    ELSE LET actual_count == count_method(self.count_method, input_string)
         IN  IF ~self.count.none /\ actual_count # self.count.n
             THEN ReturnStr(self.expected_count, "expected_count")
             ELSE IF actual_count = 0 /\ (self.count.none \/ self.count.n # 0)
             THEN ReturnStr(self.expected_existence, "expected_existence")
             ELSE ReturnNone

CountValidator_call(self, input_string) ==
    IF self.allow_empty /\ input_string = <<>> THEN ReturnNone
    ELSE LET actual_count == count_method(self.count_method, input_string)
         IN  IF actual_count = 0 /\ (self.count.none \/ self.count.n # 0)
             THEN ReturnStr(self.expected_existence, "expected_existence")
             ELSE IF actual_count # 0 /\ (~self.count.none /\ self.count.n = 0)
             THEN ReturnStr(self.expected_non_existence, "expected_non_existence")
             ELSE IF ~self.count.none /\ actual_count # self.count.n
             THEN ReturnStr(self.expected_count, "expected_count")
             ELSE ReturnNone

\* validator(input_string) for any validator; combined_validator is the loop
\* of the closure combine() returns, an exception of a validator leaving it
RECURSIVE call(_, _)
RECURSIVE combined_validator(_, _, _)
combined_validator(validators, input_string, k) ==
    IF k > Len(validators) THEN ReturnNone
    ELSE LET error_message == call(validators[k], input_string)
         IN  IF error_message.t # "None" THEN error_message
             ELSE combined_validator(validators, input_string, k + 1)
call(v, input_string) ==
    CASE v.cls = "BooleanValidator" -> BooleanValidator_call(v, input_string)
      [] v.cls = "CountValidator" -> CountValidator_call(v, input_string)
      [] v.cls = "combined_validator" -> combined_validator(v.validators, input_string, 1)

\* ---- the construction functions ------------------------------------------
\* Each takes error_message as NoMsg (None, the default) or a message.
min_length(length, error_message, allow_empty) ==
    BooleanValidator(Lambda("min_length", length, NoSubs, NoRegex),
        IF error_message.none
        THEN Msg("Input is too short (length should be at least {})", PyInt(length), NoSubs)
        ELSE error_message,
        allow_empty)

max_length(length, error_message, allow_empty) ==
    BooleanValidator(Lambda("max_length", length, NoSubs, NoRegex),
        IF error_message.none
        THEN Msg("Input is too long (length should be at most {})", PyInt(length), NoSubs)
        ELSE error_message,
        allow_empty)

\* length_between with the two validators given to combine() in the other order
length_between_MaxFirst(min_value, max_value, error_message, allow_empty) ==
    combine(<<max_length(max_value, error_message, allow_empty),
              min_length(min_value, error_message, allow_empty)>>)

length_between(min_value, max_value, error_message, allow_empty) ==
    combine(<<min_length(min_value, error_message, allow_empty),
              max_length(max_value, error_message, allow_empty)>>)

startswith(substrings, error_message, allow_empty) ==
    BooleanValidator(Lambda("startswith", 0, substrings, NoRegex),
        IF error_message.none
        THEN Msg("Input should start with \"{}\"", PyNone, substrings)
        ELSE error_message,
        allow_empty)

endswith(substrings, error_message, allow_empty) ==
    BooleanValidator(Lambda("endswith", 0, substrings, NoRegex),
        IF error_message.none
        THEN Msg("Input should end with \"{}\"", PyNone, substrings)
        ELSE error_message,
        allow_empty)

\* if isinstance(substrings, str): substrings = [substrings]
AsList(substrings) ==
    IF substrings.t = "str" THEN SubList(<<substrings.s>>) ELSE substrings

\* With no error_message the default messages are formatted, and
\* substrings[-1] raises IndexError for an empty list.
contains(substrings, count, error_message, allow_empty) ==
    LET subs == AsList(substrings)
    IN  IF error_message.none /\ Len(subs.l) = 0 THEN Raised("IndexError")
        ELSE CountValidator(Lambda("contains", 0, subs, NoRegex), count,
                IF error_message.none
                THEN Msg("Input should contain {}", PyNone, subs) ELSE error_message,
                IF error_message.none
                THEN Msg("Input should not contain {}", PyNone, subs) ELSE error_message,
                IF error_message.none
                THEN Msg("Input should contain {} exactly {} times", count, subs)
                ELSE error_message,
                allow_empty)

not_contains(substring, error_message, allow_empty) ==
    contains(substring, PyInt(0), error_message, allow_empty)

\* match_regex compiling the pattern when the validator is built
match_regex_Eager(regex_string, error_message, allow_empty) ==
    IF regex_string.op = "error" THEN Raised("re.error")
    ELSE BooleanValidator(Lambda("match_regex", 0, NoSubs, regex_string),
            IF error_message.none
            THEN Msg("Input should match regex: {}", PyNone, NoSubs)
            ELSE error_message,
            allow_empty)

match_regex(regex_string, error_message, allow_empty) ==
    BooleanValidator(Lambda("match_regex", 0, NoSubs, regex_string),
        IF error_message.none
        THEN Msg("Input should match regex: {}", PyNone, NoSubs)
        ELSE error_message,
        allow_empty)

contains_uppercase(count, error_message, allow_empty) ==
    CountValidator(Lambda("contains_uppercase", 0, NoSubs, NoRegex), count,
        IF error_message.none
        THEN Msg("Input should contain at least one uppercase character", PyNone, NoSubs)
        ELSE error_message,
        IF error_message.none
        THEN Msg("Input should not contain uppercase characters", PyNone, NoSubs)
        ELSE error_message,
        IF error_message.none
        THEN Msg("Input should contain exactly {} uppercase characters", count, NoSubs)
        ELSE error_message,
        allow_empty)

contains_lowercase(count, error_message, allow_empty) ==
    CountValidator(Lambda("contains_lowercase", 0, NoSubs, NoRegex), count,
        IF error_message.none
        THEN Msg("Input should contain at least one lowercase character", PyNone, NoSubs)
        ELSE error_message,
        IF error_message.none
        THEN Msg("Input should not contain lowercase characters", PyNone, NoSubs)
        ELSE error_message,
        IF error_message.none
        THEN Msg("Input should contain exactly {} lowercase characters", count, NoSubs)
        ELSE error_message,
        allow_empty)

contains_digit(count, error_message, allow_empty) ==
    CountValidator(Lambda("contains_digit", 0, NoSubs, NoRegex), count,
        IF error_message.none
        THEN Msg("Input should contain at least one digit", PyNone, NoSubs)
        ELSE error_message,
        IF error_message.none
        THEN Msg("Input should not contain digits", PyNone, NoSubs)
        ELSE error_message,
        IF error_message.none
        THEN Msg("Input should contain exactly {} digits", count, NoSubs)
        ELSE error_message,
        allow_empty)

contains_special(count, error_message, allow_empty) ==
    CountValidator(Lambda("contains_special", 0, NoSubs, NoRegex), count,
        IF error_message.none
        THEN Msg("Input should contain at least one special character", PyNone, NoSubs)
        ELSE error_message,
        IF error_message.none
        THEN Msg("Input should not contain specials characters", PyNone, NoSubs)
        ELSE error_message,
        IF error_message.none
        THEN Msg("Input should contain exactly {} special characters", count, NoSubs)
        ELSE error_message,
        allow_empty)

integer(error_message, allow_empty) ==
    match_regex(INTEGER_REGEX,
        IF error_message.none THEN Msg("Input should be an integer", PyNone, NoSubs)
        ELSE error_message,
        allow_empty)

number(error_message, allow_empty) ==
    match_regex(NUMBER_REGEX,
        IF error_message.none THEN Msg("Input should be a number", PyNone, NoSubs)
        ELSE error_message,
        allow_empty)

email(error_message, allow_empty) ==
    match_regex(EMAIL_REGEX,
        IF error_message.none
        THEN Msg("Input should be a valid email address", PyNone, NoSubs)
        ELSE error_message,
        allow_empty)

\* ---- the arguments the construction functions are called with ------------
LengthArgs == -1..MaxLength
CountArgs == {PyNone} \cup {PyInt(k) : k \in 0..MaxCount}
MessageArgs == {NoMsg, CustomMsg}
SubstringArgs == {SubStr(<<"a">>), SubStr(<<"1", "a">>),
                  SubList(<<>>), SubList(<< <<"a">> >>), SubList(<< <<"a">>, <<"1">> >>),
                  SubTuple(<< <<"a">>, <<"1">> >>)}
RegexArgs == {INTEGER_REGEX, NUMBER_REGEX, EMAIL_REGEX, BAD_REGEX, LETTER_A_REGEX}
\* the validators combine() is called with
CombineArgs == <<min_length(2, NoMsg, FALSE),
                 contains_digit(PyInt(1), NoMsg, TRUE),
                 startswith(SubList(<< <<"a">> >>), NoMsg, TRUE)>>

\* ---- state ---------------------------------------------------------------
VARIABLES
    validator,  \* the validator that was built, or NoValidator
    ctor,       \* the construction call that was made: function and arguments
    cerr,       \* the exception the construction call raised, "" if none
    pc,         \* per thread: "idle", "loop" (inside combined_validator), "done"
    input,      \* per thread: input_string of the call in progress
    pos,        \* per thread: the validator the loop of combined_validator is at
    calls,      \* per thread: the validators the loop has invoked, in order
    result      \* per thread: what the call returned or raised

vars == <<validator, ctor, cerr, pc, input, pos, calls, result>>
tvars == <<pc, input, pos, calls, result>>

Threads == 1..NumThreads
\* the single caller of the sequential specification
MainThread == CHOOSE t \in Threads : \A u \in Threads : t <= u

NoCtor == [fn |-> "", length |-> 0, max_value |-> 0, substrings |-> NoSubs,
           count |-> PyNone, regex_string |-> NoRegex, error_message |-> NoMsg,
           allow_empty |-> FALSE, choice |-> <<>>]

ThreadsIdle ==
    /\ pc = [t \in Threads |-> "idle"]
    /\ input = [t \in Threads |-> <<>>]
    /\ pos = [t \in Threads |-> 0]
    /\ calls = [t \in Threads |-> <<>>]
    /\ result = [t \in Threads |-> ReturnNone]

Init ==
    /\ validator = NoValidator
    /\ ctor = NoCtor
    /\ cerr = ""
    /\ ThreadsIdle

\* ---- construction -------------------------------------------------------
\* A construction call c whose outcome is v: the validator, or an exception.
Construct(c, v) ==
    /\ validator.cls = "None"
    /\ cerr = ""
    /\ ctor' = c
    /\ IF v.cls = "raise"
       THEN validator' = NoValidator /\ cerr' = v.exc
       ELSE validator' = v /\ cerr' = ""
    /\ UNCHANGED tvars

MinLength ==
    \E length \in LengthArgs, error_message \in MessageArgs, allow_empty \in BOOLEAN :
        Construct([NoCtor EXCEPT !.fn = "min_length", !.length = length,
                       !.error_message = error_message, !.allow_empty = allow_empty],
                  min_length(length, error_message, allow_empty))

MaxLengthCtor ==
    \E length \in LengthArgs, error_message \in MessageArgs, allow_empty \in BOOLEAN :
        Construct([NoCtor EXCEPT !.fn = "max_length", !.length = length,
                       !.error_message = error_message, !.allow_empty = allow_empty],
                  max_length(length, error_message, allow_empty))

LengthBetween ==
    \E min_value \in LengthArgs, max_value \in LengthArgs,
       error_message \in MessageArgs, allow_empty \in BOOLEAN :
        Construct([NoCtor EXCEPT !.fn = "length_between", !.length = min_value,
                       !.max_value = max_value,
                       !.error_message = error_message, !.allow_empty = allow_empty],
                  length_between(min_value, max_value, error_message, allow_empty))

StartsWith ==
    \E substrings \in SubstringArgs, error_message \in MessageArgs, allow_empty \in BOOLEAN :
        Construct([NoCtor EXCEPT !.fn = "startswith", !.substrings = substrings,
                       !.error_message = error_message, !.allow_empty = allow_empty],
                  startswith(substrings, error_message, allow_empty))

EndsWith ==
    \E substrings \in SubstringArgs, error_message \in MessageArgs, allow_empty \in BOOLEAN :
        Construct([NoCtor EXCEPT !.fn = "endswith", !.substrings = substrings,
                       !.error_message = error_message, !.allow_empty = allow_empty],
                  endswith(substrings, error_message, allow_empty))

Contains ==
    \E substrings \in SubstringArgs, count \in CountArgs,
       error_message \in MessageArgs, allow_empty \in BOOLEAN :
        Construct([NoCtor EXCEPT !.fn = "contains", !.substrings = substrings,
                       !.count = count,
                       !.error_message = error_message, !.allow_empty = allow_empty],
                  contains(substrings, count, error_message, allow_empty))

NotContains ==
    \E substring \in SubstringArgs, error_message \in MessageArgs, allow_empty \in BOOLEAN :
        Construct([NoCtor EXCEPT !.fn = "not_contains", !.substrings = substring,
                       !.count = PyInt(0),
                       !.error_message = error_message, !.allow_empty = allow_empty],
                  not_contains(substring, error_message, allow_empty))

MatchRegex ==
    \E regex_string \in RegexArgs, error_message \in MessageArgs, allow_empty \in BOOLEAN :
        Construct([NoCtor EXCEPT !.fn = "match_regex", !.regex_string = regex_string,
                       !.error_message = error_message, !.allow_empty = allow_empty],
                  match_regex(regex_string, error_message, allow_empty))

ContainsUppercase ==
    \E count \in CountArgs, error_message \in MessageArgs, allow_empty \in BOOLEAN :
        Construct([NoCtor EXCEPT !.fn = "contains_uppercase", !.count = count,
                       !.error_message = error_message, !.allow_empty = allow_empty],
                  contains_uppercase(count, error_message, allow_empty))

ContainsLowercase ==
    \E count \in CountArgs, error_message \in MessageArgs, allow_empty \in BOOLEAN :
        Construct([NoCtor EXCEPT !.fn = "contains_lowercase", !.count = count,
                       !.error_message = error_message, !.allow_empty = allow_empty],
                  contains_lowercase(count, error_message, allow_empty))

ContainsDigit ==
    \E count \in CountArgs, error_message \in MessageArgs, allow_empty \in BOOLEAN :
        Construct([NoCtor EXCEPT !.fn = "contains_digit", !.count = count,
                       !.error_message = error_message, !.allow_empty = allow_empty],
                  contains_digit(count, error_message, allow_empty))

ContainsSpecial ==
    \E count \in CountArgs, error_message \in MessageArgs, allow_empty \in BOOLEAN :
        Construct([NoCtor EXCEPT !.fn = "contains_special", !.count = count,
                       !.error_message = error_message, !.allow_empty = allow_empty],
                  contains_special(count, error_message, allow_empty))

IntegerCtor ==
    \E error_message \in MessageArgs, allow_empty \in BOOLEAN :
        Construct([NoCtor EXCEPT !.fn = "integer",
                       !.error_message = error_message, !.allow_empty = allow_empty],
                  integer(error_message, allow_empty))

NumberCtor ==
    \E error_message \in MessageArgs, allow_empty \in BOOLEAN :
        Construct([NoCtor EXCEPT !.fn = "number",
                       !.error_message = error_message, !.allow_empty = allow_empty],
                  number(error_message, allow_empty))

EmailCtor ==
    \E error_message \in MessageArgs, allow_empty \in BOOLEAN :
        Construct([NoCtor EXCEPT !.fn = "email",
                       !.error_message = error_message, !.allow_empty = allow_empty],
                  email(error_message, allow_empty))

\* combine(*validators) with 0..MaxValidators validators chosen from CombineArgs
Chosen(choice) == [k \in 1..Len(choice) |-> CombineArgs[choice[k]]]
Choices == UNION {[1..n -> 1..Len(CombineArgs)] : n \in 0..MaxValidators}
Combine ==
    \E choice \in Choices :
        Construct([NoCtor EXCEPT !.fn = "combine", !.choice = choice],
                  combine(Chosen(choice)))

\* ---- invocation ---------------------------------------------------------
\* BooleanValidator.__call__(input_string), by thread t
BooleanCall(t, x) ==
    /\ validator.cls = "BooleanValidator"
    /\ pc[t] = "idle"
    /\ input' = [input EXCEPT ![t] = x]
    /\ result' = [result EXCEPT ![t] = BooleanValidator_call(validator, x)]
    /\ pc' = [pc EXCEPT ![t] = "done"]
    /\ UNCHANGED <<validator, ctor, cerr, pos, calls>>

\* CountValidator.__call__ that keeps the count it found in self.count
CountCall_Caching(t, x) ==
    /\ validator.cls = "CountValidator"
    /\ pc[t] = "idle"
    /\ input' = [input EXCEPT ![t] = x]
    /\ result' = [result EXCEPT ![t] = CountValidator_call(validator, x)]
    /\ pc' = [pc EXCEPT ![t] = "done"]
    /\ validator' = [validator EXCEPT
                        !.count = PyInt(count_method(validator.count_method, x))]
    /\ UNCHANGED <<ctor, cerr, pos, calls>>

\* CountValidator.__call__(input_string), by thread t
CountCall(t, x) ==
    /\ validator.cls = "CountValidator"
    /\ pc[t] = "idle"
    /\ input' = [input EXCEPT ![t] = x]
    /\ result' = [result EXCEPT ![t] = CountValidator_call(validator, x)]
    /\ pc' = [pc EXCEPT ![t] = "done"]
    /\ UNCHANGED <<validator, ctor, cerr, pos, calls>>

\* combined_validator(input_string), by thread t: entering the loop
CombinedCall(t, x) ==
    /\ validator.cls = "combined_validator"
    /\ pc[t] = "idle"
    /\ input' = [input EXCEPT ![t] = x]
    /\ pos' = [pos EXCEPT ![t] = 1]
    /\ pc' = [pc EXCEPT ![t] = "loop"]
    /\ UNCHANGED <<validator, ctor, cerr, calls, result>>

\* one turn of `for validator in validators` that goes on after an error
\* message and returns the last one
CombinedLoop_NoBreak(t) ==
    /\ pc[t] = "loop"
    /\ IF pos[t] > Len(validator.validators)
       THEN /\ pc' = [pc EXCEPT ![t] = "done"]
            /\ UNCHANGED <<pos, calls, result>>
       ELSE LET error_message == call(validator.validators[pos[t]], input[t])
            IN  /\ calls' = [calls EXCEPT ![t] = Append(@, pos[t])]
                /\ pos' = [pos EXCEPT ![t] = @ + 1]
                /\ result' = [result EXCEPT ![t] =
                                 IF error_message.t # "None" THEN error_message ELSE @]
                /\ UNCHANGED pc
    /\ UNCHANGED <<validator, ctor, cerr, input>>

\* one turn of `for validator in validators`: the next validator is invoked
\* and its error message (or its exception) ends the call; with no validator
\* left the call returns None
CombinedLoop(t) ==
    /\ pc[t] = "loop"
    /\ IF pos[t] > Len(validator.validators)
       THEN /\ result' = [result EXCEPT ![t] = ReturnNone]
            /\ pc' = [pc EXCEPT ![t] = "done"]
            /\ UNCHANGED <<pos, calls>>
       ELSE LET error_message == call(validator.validators[pos[t]], input[t])
            IN  /\ calls' = [calls EXCEPT ![t] = Append(@, pos[t])]
                /\ IF error_message.t # "None"
                   THEN /\ result' = [result EXCEPT ![t] = error_message]
                        /\ pc' = [pc EXCEPT ![t] = "done"]
                        /\ UNCHANGED pos
                   ELSE /\ pos' = [pos EXCEPT ![t] = @ + 1]
                        /\ UNCHANGED <<pc, result>>
    /\ UNCHANGED <<validator, ctor, cerr, input>>

\* the caller has taken the result of its call
Return(t) ==
    /\ pc[t] = "done"
    /\ pc' = [pc EXCEPT ![t] = "idle"]
    /\ input' = [input EXCEPT ![t] = <<>>]
    /\ pos' = [pos EXCEPT ![t] = 0]
    /\ calls' = [calls EXCEPT ![t] = <<>>]
    /\ result' = [result EXCEPT ![t] = ReturnNone]
    /\ UNCHANGED <<validator, ctor, cerr>>

\* the validator (or the failed construction) is dropped
Discard ==
    /\ validator.cls # "None" \/ cerr # ""
    /\ \A t \in Threads : pc[t] = "idle"
    /\ validator' = NoValidator
    /\ ctor' = NoCtor
    /\ cerr' = ""
    /\ UNCHANGED tvars

\* ---- specifications -----------------------------------------------------
\* One caller: every construction function, every input up to MaxLen.
Next ==
    \/ MatchRegex
    \/ MinLength
    \/ MaxLengthCtor
    \/ LengthBetween
    \/ StartsWith
    \/ EndsWith
    \/ Contains
    \/ NotContains
    \/ ContainsUppercase
    \/ ContainsLowercase
    \/ ContainsDigit
    \/ ContainsSpecial
    \/ IntegerCtor
    \/ NumberCtor
    \/ EmailCtor
    \/ Combine
    \/ \E x \in Inputs : BooleanCall(MainThread, x)
    \/ \E x \in Inputs : CountCall(MainThread, x)
    \/ \E x \in Inputs : CombinedCall(MainThread, x)
    \/ CombinedLoop(MainThread)
    \/ Return(MainThread)
    \/ Discard

Spec == Init /\ [][Next]_vars

\* Several callers of one validator that was built before they start.
ConcInputs == {<<>>, <<"1">>, <<"a", "1">>, <<"1", "1">>}

InitConc ==
    /\ \/ \E choice \in Choices :
            /\ validator = combine(Chosen(choice))
            /\ ctor = [NoCtor EXCEPT !.fn = "combine", !.choice = choice]
       \/ \E k \in 1..Len(CombineArgs) :
            /\ validator = CombineArgs[k]
            /\ ctor = [NoCtor EXCEPT !.fn = "combine_arg", !.choice = <<k>>]
    /\ cerr = ""
    /\ ThreadsIdle

NextConc ==
    \E t \in Threads :
        \/ \E x \in ConcInputs : BooleanCall(t, x)
        \/ \E x \in ConcInputs : CountCall(t, x)
        \/ \E x \in ConcInputs : CombinedCall(t, x)
        \/ CombinedLoop(t)
        \/ Return(t)

SpecConc == InitConc /\ [][NextConc]_vars

\* ---- properties ---------------------------------------------------------
Done == pc[MainThread] = "done"
In == input[MainThread]
Res == result[MainThread]
\* the call in progress is exempted by the empty-input rule
Exempt == ctor.allow_empty /\ In = <<>>
\* what the k-th validator of the combined validator yields on the input
Outcome(k) == call(validator.validators[k], In)

\* C1: combine(v1..vn) applies the validators in argument order; once one has
\* yielded a non-null result no later one is invoked; the call yields that
\* first non-null result, and null only if every validator yields null.
C1_CombineFirstNonNull ==
    (validator.cls = "combined_validator" /\ pc[MainThread] \in {"loop", "done"}) =>
        LET n == Len(validator.validators)
            c == calls[MainThread]
        IN  /\ Len(c) <= n
            /\ \A k \in 1..Len(c) : c[k] = k
            /\ \A k \in 1..(Len(c) - 1) : Outcome(k).t = "None"
            /\ Done =>
                /\ (Res.t = "None") <=> (\A k \in 1..n : Outcome(k).t = "None")
                /\ (Res.t = "None") => Len(c) = n
                /\ (Res.t # "None") =>
                      /\ Len(c) >= 1
                      /\ Outcome(Len(c)).t # "None"
                      /\ Res = Outcome(Len(c))

\* combine(v1, v2) has returned v1's message and v2 was not invoked
C1_Witness ==
    /\ ctor.fn = "combine"
    /\ Len(validator.validators) = 2
    /\ Done
    /\ calls[MainThread] = <<1>>
    /\ Res.t = "str"

\* C2: on a non-exempt input a CountValidator returns the existence message
\* iff actual = 0 and expected # 0 (unset counts as # 0), else the
\* non-existence message iff actual # 0 and expected = 0, else the exact-count
\* message iff expected is set and actual # expected, else null; the
\* exact-count message only comes with actual # 0 and expected a non-zero value.
C2_CountPrecedence ==
    (validator.cls = "CountValidator" /\ Done
        /\ ~(validator.allow_empty /\ In = <<>>)) =>
        LET actual == count_method(validator.count_method, In)
            expected == validator.count
            wantSome == actual = 0 /\ (expected.none \/ expected.n # 0)
            wantNone == actual # 0 /\ ~expected.none /\ expected.n = 0
            wantExact == ~wantSome /\ ~wantNone /\ ~expected.none /\ actual # expected.n
        IN  /\ Res.t \in {"None", "str"}
            /\ (Res = ReturnStr(validator.expected_existence, "expected_existence"))
                  <=> wantSome
            /\ (Res = ReturnStr(validator.expected_non_existence, "expected_non_existence"))
                  <=> wantNone
            /\ (Res = ReturnStr(validator.expected_count, "expected_count"))
                  <=> wantExact
            /\ (Res = ReturnNone) <=> (~wantSome /\ ~wantNone /\ ~wantExact)
            /\ (Res.attr = "expected_count") =>
                  (actual # 0 /\ ~expected.none /\ expected.n # 0)

\* a count validator has returned its exact-count message
C2_Witness ==
    /\ validator.cls = "CountValidator"
    /\ Done
    /\ Res.attr = "expected_count"
    /\ validator.count = PyInt(2)

\* the construction functions that take allow_empty
AllowEmptyFns == {"min_length", "max_length", "length_between", "startswith",
                  "endswith", "contains", "not_contains", "match_regex",
                  "contains_uppercase", "contains_lowercase", "contains_digit",
                  "contains_special", "integer", "number", "email"}

\* C3: a validator built by any construction function with allow_empty=true
\* returns null on the empty string.
C3_EmptyExempt ==
    (ctor.fn \in AllowEmptyFns /\ ctor.allow_empty /\ Done /\ In = <<>>) =>
        Res = ReturnNone

\* min_length(2, allow_empty=True) has been invoked on "", which is too short
C3_Witness ==
    /\ ctor.fn = "min_length"
    /\ ctor.length = 2
    /\ ctor.allow_empty
    /\ Done
    /\ In = <<>>
    /\ Res = ReturnNone

\* the arguments the claim C4 calls invalid
InvalidArgs ==
    \/ ctor.fn = "match_regex" /\ ctor.regex_string.op = "error"
    \/ ctor.fn \in {"min_length", "max_length"} /\ ctor.length < 0
    \/ ctor.fn = "length_between" /\ (ctor.length < 0 \/ ctor.max_value < 0)
    \/ /\ ctor.fn \in {"contains", "startswith", "endswith"}
       /\ ctor.substrings.t = "list"
       /\ ctor.substrings.l = <<>>

\* C4 as stated: invalid arguments make the construction call fail, and no
\* validator is returned for them.
C4_FailsAtConstruction ==
    InvalidArgs => (validator = NoValidator /\ cerr # "")

\* C4 as amended: the construction functions do not check their arguments.
\* The only construction call that fails is contains()/not_contains() with no
\* substring and no error_message (IndexError while the default messages are
\* formatted); every other call returns a validator.  A malformed regex makes
\* every non-exempt invocation raise re.error, an empty list given to
\* startswith/endswith makes every non-exempt invocation raise TypeError, and
\* a negative length bound or an empty list given to contains (with an
\* error_message) never raises.
C4_NoValidationAtConstruction ==
    /\ (cerr # "") <=>
          /\ ctor.fn \in {"contains", "not_contains"}
          /\ AsList(ctor.substrings).l = <<>>
          /\ ctor.error_message.none
    /\ (cerr # "") => (cerr = "IndexError" /\ validator = NoValidator)
    /\ (ctor.fn # "" /\ cerr = "") => validator.cls # "None"
    /\ (Done /\ ~Exempt /\ ctor.fn = "match_regex" /\ ctor.regex_string.op = "error")
          => Res = Raise("re.error")
    /\ (Done /\ ~Exempt /\ ctor.fn \in {"startswith", "endswith"}
             /\ ctor.substrings = SubList(<<>>))
          => Res = Raise("TypeError")
    /\ (Done /\ ctor.fn \in {"min_length", "max_length", "length_between",
                             "contains", "not_contains"})
          => Res.t # "raise"

\* match_regex was given a malformed pattern, returned a validator, and the
\* invocation of that validator has raised
C4_Witness ==
    /\ ctor.fn = "match_regex"
    /\ ctor.regex_string.op = "error"
    /\ validator.cls = "BooleanValidator"
    /\ Done
    /\ Res = Raise("re.error")

\* one or more decimal digits
DigitsOnly(q) == Len(q) >= 1 /\ \A k \in 1..Len(q) : q[k] \in digits
\* digits, digits '.' digits, '.' digits, or digits '.'
IsDecimal(b) ==
    \/ DigitsOnly(b)
    \/ \E d \in 1..Len(b) :
          /\ b[d] = "."
          /\ LET l == SubSeq(b, 1, d - 1)
                 r == SubSeq(b, d + 1, Len(b))
             IN  \/ DigitsOnly(l) /\ DigitsOnly(r)
                 \/ l = <<>> /\ DigitsOnly(r)
                 \/ DigitsOnly(l) /\ r = <<>>
\* an optional leading '-' followed by a decimal
IsSignedDecimal(a) ==
    IsDecimal(IF Len(a) >= 1 /\ a[1] = "-" THEN Tail(a) ELSE a)

\* C5: on a non-exempt input number() returns null iff the whole input is an
\* optional '-' followed by digits, digits.digits, .digits or digits. ; every
\* other input gets the error message.
C5_NumberFullMatch ==
    (ctor.fn = "number" /\ Done /\ ~Exempt) =>
        /\ (Res = ReturnNone) <=> IsSignedDecimal(In)
        /\ ~IsSignedDecimal(In) => Res = ReturnStr(validator.error_message, "error_message")

\* C6: on a non-exempt input integer() returns null iff the entire input is
\* one or more characters '0'..'9' and nothing else (no trailing newline).
C6_IntegerFullMatch ==
    (ctor.fn = "integer" /\ Done /\ ~Exempt) =>
        /\ (Res = ReturnNone) <=> DigitsOnly(In)
        /\ ~DigitsOnly(In) => Res = ReturnStr(validator.error_message, "error_message")

\* the substrings as a sequence of str, whatever they were given as
SubstringsOf(substrings) ==
    IF substrings.t = "str" THEN <<substrings.s>> ELSE substrings.l

\* C7: startswith/endswith built with one string or a list of one or more
\* strings return, on a non-exempt input, null iff the input starts (ends)
\* with at least one of them and the error message otherwise, and never raise.
C7_StartsEndsWithAny ==
    (ctor.fn \in {"startswith", "endswith"} /\ Done /\ ~Exempt
        /\ ctor.substrings.t \in {"str", "list"}
        /\ Len(SubstringsOf(ctor.substrings)) >= 1) =>
        LET subs == SubstringsOf(ctor.substrings)
            hit == \E k \in 1..Len(subs) :
                      IF ctor.fn = "startswith" THEN HasPrefix(In, subs[k])
                      ELSE HasSuffix(In, subs[k])
        IN  /\ Res.t # "raise"
            /\ (Res = ReturnNone) <=> hit
            /\ ~hit => Res = ReturnStr(validator.error_message, "error_message")

\* C8: with allow_empty=false min_length(n) returns null iff len(input) >= n
\* on every input, the empty one included; with allow_empty=true the same
\* holds on every non-empty input.  A BooleanValidator on a non-empty input
\* returns null iff its predicate returns true, and its error message when
\* the predicate returns false.
C8_MinLengthPredicate ==
    /\ (ctor.fn = "min_length" /\ Done /\ (~ctor.allow_empty \/ In # <<>>)) =>
          /\ (Res = ReturnNone) <=> (Len(In) >= ctor.length)
          /\ (Len(In) < ctor.length) =>
                Res = ReturnStr(validator.error_message, "error_message")
    /\ (validator.cls = "BooleanValidator" /\ Done /\ In # <<>>) =>
          LET p == is_valid_method(validator.is_valid_method, In)
          IN  /\ (Res = ReturnNone) <=> (p = "True")
              /\ (p = "False") => Res = ReturnStr(validator.error_message, "error_message")

\* min_length(n >= 1, allow_empty=False) has been invoked on "" and has
\* returned its message: the predicate was evaluated on the empty input
C8_Witness ==
    /\ ctor.fn = "min_length"
    /\ ~ctor.allow_empty
    /\ ctor.length >= 1
    /\ Done
    /\ In = <<>>
    /\ Res.t = "str"

TooShort(n) == Msg("Input is too short (length should be at least {})", PyInt(n), NoSubs)
TooLong(n) == Msg("Input is too long (length should be at most {})", PyInt(n), NoSubs)

\* C9 as stated: length_between(min, max) on a non-exempt input returns the
\* too-short message when len < min, the too-long message when len > max, and
\* null iff min <= len <= max; a custom message is returned in both cases.
\* (Stated for the bounds min >= 0 and max >= 0.)
C9_LengthBetweenAsStated ==
    (ctor.fn = "length_between" /\ Done /\ ~Exempt
        /\ ctor.length >= 0 /\ ctor.max_value >= 0) =>
        /\ (Res = ReturnNone) <=> (ctor.length <= Len(In) /\ Len(In) <= ctor.max_value)
        /\ ctor.error_message.none =>
              /\ (Len(In) < ctor.length) =>
                    Res = ReturnStr(TooShort(ctor.length), "error_message")
              /\ (Len(In) > ctor.max_value) =>
                    Res = ReturnStr(TooLong(ctor.max_value), "error_message")
        /\ (~ctor.error_message.none /\ (Len(In) < ctor.length \/ Len(In) > ctor.max_value)) =>
              Res = ReturnStr(ctor.error_message, "error_message")

\* C9 as amended: the too-long message is returned when len > max and
\* len >= min; an input that is both shorter than min and longer than max
\* (min > max) gets the too-short message, the minimum being checked first.
C9_LengthBetweenMinFirst ==
    (ctor.fn = "length_between" /\ Done /\ ~Exempt) =>
        /\ (Res = ReturnNone) <=> (ctor.length <= Len(In) /\ Len(In) <= ctor.max_value)
        /\ ctor.error_message.none =>
              /\ (Len(In) < ctor.length) =>
                    Res = ReturnStr(TooShort(ctor.length), "error_message")
              /\ (Len(In) > ctor.max_value /\ Len(In) >= ctor.length) =>
                    Res = ReturnStr(TooLong(ctor.max_value), "error_message")
        /\ (~ctor.error_message.none /\ (Len(In) < ctor.length \/ Len(In) > ctor.max_value)) =>
              Res = ReturnStr(ctor.error_message, "error_message")

\* length_between(min, max) with max < len < min has been invoked: the input
\* is both too short and too long, and the too-short message was returned
C9_Witness ==
    /\ ctor.fn = "length_between"
    /\ ctor.error_message.none
    /\ Done
    /\ Len(In) > ctor.max_value
    /\ Len(In) < ctor.length
    /\ Res = ReturnStr(TooShort(ctor.length), "error_message")

\* C10: no step of any invocation changes the validator's configuration, and
\* whatever the interleaving of the callers, a call that has finished holds
\* the result a solitary call on the same input yields.
C10_CallsIndependent ==
    [][/\ validator' = validator
       /\ ctor' = ctor
       /\ \A t \in Threads :
             pc'[t] = "done" => result'[t] = call(validator', input'[t])]_vars

\* two callers are inside the same combined validator on different inputs,
\* one of them finished with a message
C10_Witness ==
    /\ validator.cls = "combined_validator"
    /\ pc[1] = "loop"
    /\ pc[2] = "done"
    /\ input[1] # input[2]
    /\ result[2].t = "str"

====
